---- MODULE Spec2Model ----
(***************************************************************************)
(* A model of dslc.py: the plugin loader that fills plugin_registry, the   *)
(* recursive parser, the template renderer compile_element and the         *)
(* document assembler compile_to_html.                                     *)
(*                                                                         *)
(* Text is modelled as a sequence of atoms.  An atom is one character      *)
(* ("{", "}", "<", a line break, ...) or one word that the code only ever  *)
(* handles as a whole (an identifier, a property key, a tag name).         *)
(***************************************************************************)
EXTENDS Integers, Sequences, FiniteSets, TLC

VARIABLES
    plugin_registry, \* dict: registry key -> descriptor
    registrations,   \* the registrations made so far, in order (history)
    tokens,          \* the token list handed to parse
    pos,             \* parse's cursor
    stack,           \* the active parse_element calls, innermost last
    elements,        \* parse's top-level result list
    ast,             \* the element forest handed to the compiler
    result,          \* what the compiler returned
    pc               \* where the program is

vars == <<plugin_registry, registrations, tokens, pos, stack, elements, ast, result, pc>>

(***************************************************************************)
(* Bounds of the model.                                                    *)
(***************************************************************************)
MaxRegistrations == 3
MaxPluginAssigns == 2

(***************************************************************************)
(* str.lower() on the words of the model.                                  *)
(***************************************************************************)
Lower(s) ==
    CASE s = "Hej"  -> "hej"
      [] s = "HEJ"  -> "hej"
      [] s = "Card" -> "card"
      [] s = "CARD" -> "card"
      [] s = "Foo"  -> "foo"
      [] s = "A"    -> "a"
      [] s = "Data" -> "data"
      [] OTHER      -> s

LowerAll(list) == [i \in DOMAIN list |-> Lower(list[i])]

Range(f) == {f[i] : i \in DOMAIN f}

(***************************************************************************)
(* dict operations on plugin_registry (a function on its key set).         *)
(***************************************************************************)
DictPut(d, k, v) == [x \in (DOMAIN d) \cup {k} |-> IF x = k THEN v ELSE d[x]]

DictPop(d, k) == [x \in (DOMAIN d) \ {k} |-> d[x]]

EmptyDict == [x \in {} |-> x]

(***************************************************************************)
(* load_plugin_file: the descriptor one define block registers.  tagMatch  *)
(* is the text of tag("...") in the block, or <<>> when the block has none *)
(* (an empty tag("") cannot be told from that here and is left out).       *)
(***************************************************************************)
DefaultContent == <<"{", "{", "text", "}", "}">>

DefineDescriptor(name, tagMatch, selfclosingMatch) ==
    [ tag            |-> IF tagMatch # <<>> THEN tagMatch ELSE <<Lower(name)>>,
      content        |-> DefaultContent,
      selfclosing    |-> (selfclosingMatch = "true"),
      attrs          |-> <<>>,
      default_css    |-> <<>>,
      default_script |-> <<>>,
      allow_children |-> <<>>,
      allow_attrs    |-> <<>>,
      deny_attrs     |-> <<>> ]

\* the descriptor plugins/advanced.py registers under "Hej" (its texts kept
\* as single atoms)
HejDescriptor ==
    [ tag            |-> <<"div">>,
      content        |-> <<"{", "{", "data_list", "}", "}", "{", "{", "children", "}", "}",
                           "{", "{", "data_json", "}", "}">>,
      selfclosing    |-> FALSE,
      attrs          |-> <<"class">>,
      default_css    |-> <<".card{padding:10px;border:1px solid #ddd}">>,
      default_script |-> <<"alert(", "{", "{", "data_json[0]", "}", "}", ")">>,
      allow_children |-> <<"*">>,
      allow_attrs    |-> <<"*">>,
      deny_attrs     |-> <<>> ]

LoadNames == {"hej", "Hej", "card"}
PluginNames == {"Hej", "HEJ", "hej"}
LoadTags == {<<>>, <<"span">>}
PluginDescriptors == {HejDescriptor, DefineDescriptor("hej", <<"p">>, "true")}

\* plugin_registry[name.lower()] = {...}
RegisterDefine(reg, name, desc) == DictPut(reg, Lower(name), desc)

(***************************************************************************)
(* load_plugins, python plugins: mod.register(plugin_registry) followed by *)
(* the normalisation of the keys it added.                                 *)
(***************************************************************************)
RECURSIVE ApplyAssigns(_, _)
ApplyAssigns(reg, assigns) ==
    IF assigns = <<>> THEN reg
    ELSE ApplyAssigns(DictPut(reg, Head(assigns).name, Head(assigns).desc), Tail(assigns))

PermSeqs(S) ==
    {s \in [1..Cardinality(S) -> S] : \A x \in S : \E i \in 1..Cardinality(S) : s[i] = x}

NormalizeKeyKeepExisting(reg, k) ==
    IF Lower(k) # k
    THEN IF Lower(k) \in DOMAIN reg
         THEN DictPop(reg, k)
         ELSE DictPut(DictPop(reg, k), Lower(k), reg[k])
    ELSE reg

NormalizeKey(reg, k) == NormalizeKeyKeepExisting(reg, k)

\* for k in list(new_keys): ...   (order: the iteration order of a set)
RECURSIVE NormalizeKeys(_, _)
NormalizeKeys(reg, order) ==
    IF order = <<>> THEN reg
    ELSE NormalizeKeys(NormalizeKey(reg, Head(order)), Tail(order))

(***************************************************************************)
(* The loader as a state machine: the .box files first, then the python    *)
(* plugins.                                                                *)
(***************************************************************************)
IdleParse ==
    /\ tokens = <<>>
    /\ pos = 0
    /\ stack = <<>>
    /\ elements = <<>>

IdleCompile ==
    /\ ast = <<>>
    /\ result = <<>>

InitLoad ==
    /\ plugin_registry = EmptyDict
    /\ registrations = <<>>
    /\ pc = "box"
    /\ IdleParse
    /\ IdleCompile

LoadDefine ==
    /\ pc = "box"
    /\ Len(registrations) < MaxRegistrations
    /\ \E name \in LoadNames, tagMatch \in LoadTags :
         LET desc == DefineDescriptor(name, tagMatch, "false") IN
         /\ plugin_registry' = RegisterDefine(plugin_registry, name, desc)
         /\ registrations' = Append(registrations, [name |-> name, desc |-> desc])
    /\ UNCHANGED <<tokens, pos, stack, elements, ast, result, pc>>

AssignSeqs ==
    UNION {[1..n -> [name : PluginNames, desc : PluginDescriptors]] : n \in 1..MaxPluginAssigns}

PythonPlugin ==
    /\ pc \in {"box", "py"}
    /\ \E assigns \in AssignSeqs :
         /\ Len(registrations) + Len(assigns) <= MaxRegistrations
         /\ LET before_keys == DOMAIN plugin_registry
                after == ApplyAssigns(plugin_registry, assigns)
                new_keys == (DOMAIN after) \ before_keys
            IN \E order \in PermSeqs(new_keys) :
                 plugin_registry' = NormalizeKeys(after, order)
         /\ registrations' = registrations \o assigns
    /\ pc' = "py"
    /\ UNCHANGED <<tokens, pos, stack, elements, ast, result>>

NextLoad == LoadDefine \/ PythonPlugin

SpecLoad == InitLoad /\ [][NextLoad]_vars

(***************************************************************************)
(* tokenize's tokens, as atoms: identifiers, the punctuation tokens and    *)
(* string literals (quotes included, as the tokenizer returns them).       *)
(***************************************************************************)
IdentTokens == {"Card", "foo"}
StringTokens == {"\"v\""}
PunctTokens == {"(", ")", "{", "}", ",", ";", ">"}
TokenAlphabet == IdentTokens \cup StringTokens \cup PunctTokens

\* re.match(r'[A-Za-z_][A-Za-z0-9_]*', tok): the token starts like an identifier
IsIdentifier(tok) == tok \in IdentTokens

\* tok.startswith('"')
IsString(tok) == tok \in StringTokens

\* tok.strip('"'): the text between the quotes
StripQuotes(tok) ==
    CASE tok = "\"v\"" -> <<"v">>
      [] tok = "\"\""  -> <<>>
      [] OTHER         -> <<tok>>

\* the registry the parser consults: one component, registered as "card"
CardDescriptor == DefineDescriptor("card", <<"div">>, "false")
ParseRegistry == DictPut(EmptyDict, "card", CardDescriptor)

(***************************************************************************)
(* parse: pos counts from 0 as in the code, so tokens[pos] is Tok(pos).    *)
(* stack holds the active parse_element calls; a frame's "at" is the place *)
(* in parse_element the call has reached.                                  *)
(***************************************************************************)
Tok(i) == tokens[i + 1]
NTok == Len(tokens)
Top == stack[Len(stack)]
SetTop(f) == [stack EXCEPT ![Len(stack)] = f]

\* lines 146-155: name = tokens[pos]; pos += 1; an opening "{" starts the data list
EnterElement(p) ==
    LET brace == (p + 1 < NTok /\ Tok(p + 1) = "{") IN
    [ frame |-> [ name |-> Tok(p), data_list |-> <<>>, props |-> <<>>, children |-> <<>>,
                  at |-> IF brace THEN "data" ELSE "open" ],
      pos   |-> IF brace THEN p + 2 ELSE p + 1 ]

\* line 225: the element dict a finished call returns
FrameElement(f) ==
    [name |-> f.name, props |-> f.props, children |-> f.children, data |-> f.data_list]

\* line 190: the child made of K("v") when K is a plugin name (it has no data key)
InlineChildElement(key, value) ==
    [name |-> key, props |-> <<<<"text", value>>>>, children |-> <<>>]

\* a call returns elem: to the props loop of its caller (lines 206-208, 213-215) or
\* to the top-level loop (lines 231-233)
ReturnTo(elem, newpos) ==
    /\ pos' = newpos
    /\ IF Len(stack) > 1
       THEN /\ stack' = [i \in 1..(Len(stack) - 1) |->
                           IF i = Len(stack) - 1
                           THEN [stack[i] EXCEPT !.children = Append(@, elem),
                                                 !.at = "after_child"]
                           ELSE stack[i]]
            /\ UNCHANGED elements
       ELSE /\ stack' = <<>>
            /\ elements' = Append(elements, elem)

ParseUnchanged == UNCHANGED <<plugin_registry, registrations, tokens, ast, result>>

\* lines 230-231: the top-level loop calls parse_element while tokens remain
ParseTop ==
    /\ pc = "parse"
    /\ stack = <<>>
    /\ pos < NTok
    /\ stack' = <<EnterElement(pos).frame>>
    /\ pos' = EnterElement(pos).pos
    /\ UNCHANGED <<elements, pc>>
    /\ ParseUnchanged

\* line 234: return elements
ParseDone ==
    /\ pc = "parse"
    /\ stack = <<>>
    /\ pos >= NTok
    /\ pc' = "parsed"
    /\ UNCHANGED <<pos, stack, elements>>
    /\ ParseUnchanged

\* the data-list loop with the "," branch continuing without pos += 1
DataStepCommaStuck ==
    /\ pc = "parse" /\ stack # <<>> /\ Top.at = "data"
    /\ pos < NTok /\ Tok(pos) # "}"
    /\ stack' = SetTop([Top EXCEPT !.data_list =
                          IF IsString(Tok(pos)) THEN Append(@, StripQuotes(Tok(pos))) ELSE @])
    /\ pos' = IF Tok(pos) = "," THEN pos ELSE pos + 1
    /\ UNCHANGED <<elements, pc>>
    /\ ParseUnchanged

\* lines 156-162: one iteration of the data-list loop
DataStep ==
    /\ pc = "parse" /\ stack # <<>> /\ Top.at = "data"
    /\ pos < NTok /\ Tok(pos) # "}"
    /\ stack' = SetTop([Top EXCEPT !.data_list =
                          IF IsString(Tok(pos)) THEN Append(@, StripQuotes(Tok(pos))) ELSE @])
    /\ pos' = pos + 1
    /\ UNCHANGED <<elements, pc>>
    /\ ParseUnchanged

\* lines 163-164: the data-list loop is left; a closing "}" is consumed
DataEnd ==
    /\ pc = "parse" /\ stack # <<>> /\ Top.at = "data"
    /\ ~(pos < NTok /\ Tok(pos) # "}")
    /\ pos' = IF pos < NTok /\ Tok(pos) = "}" THEN pos + 1 ELSE pos
    /\ stack' = SetTop([Top EXCEPT !.at = "open"])
    /\ UNCHANGED <<elements, pc>>
    /\ ParseUnchanged

\* lines 169-170: "(" opens the props block
PropsOpen ==
    /\ pc = "parse" /\ stack # <<>> /\ Top.at = "open"
    /\ pos < NTok /\ Tok(pos) = "("
    /\ pos' = pos + 1
    /\ stack' = SetTop([Top EXCEPT !.at = "props"])
    /\ UNCHANGED <<elements, pc>>
    /\ ParseUnchanged

\* lines 169, 225-226: no props block; the element is returned
NoProps ==
    /\ pc = "parse" /\ stack # <<>> /\ Top.at = "open"
    /\ ~(pos < NTok /\ Tok(pos) = "(")
    /\ ReturnTo(FrameElement(Top), pos)
    /\ UNCHANGED pc
    /\ ParseUnchanged

InProps ==
    /\ pc = "parse" /\ stack # <<>> /\ Top.at = "props"
    /\ pos < NTok /\ Tok(pos) # ")"

\* line 176-178: key "(" string
IsKeyParenString ==
    /\ IsIdentifier(Tok(pos))
    /\ pos + 1 < NTok /\ Tok(pos + 1) = "("
    /\ pos + 2 < NTok /\ IsString(Tok(pos + 2))

\* lines 184-192 and 195-203: past the value, a ")" and then a ";" are consumed
AfterValue ==
    LET p1 == pos + 3
        p2 == IF p1 < NTok /\ Tok(p1) = ")" THEN p1 + 1 ELSE p1
    IN IF p2 < NTok /\ Tok(p2) = ";" THEN p2 + 1 ELSE p2

\* a lookup that forgets to lowercase the key
KeyIsPluginExactCase(key) == key \in DOMAIN plugin_registry

\* line 182: if key.lower() in plugin_registry
KeyIsPlugin(key) == Lower(key) \in DOMAIN plugin_registry

\* lines 193-203: K("v") is a property
PropAssign ==
    /\ InProps /\ IsKeyParenString
    /\ ~KeyIsPlugin(Tok(pos))
    /\ stack' = SetTop([Top EXCEPT !.props =
                          Append(@, <<Tok(pos), StripQuotes(Tok(pos + 2))>>)])
    /\ pos' = AfterValue
    /\ UNCHANGED <<elements, pc>>
    /\ ParseUnchanged

\* lines 182-192: K("v") with K a plugin name is a child element with a text prop
InlineChild ==
    /\ InProps /\ IsKeyParenString
    /\ KeyIsPlugin(Tok(pos))
    /\ stack' = SetTop([Top EXCEPT !.children =
                          Append(@, InlineChildElement(Tok(pos), StripQuotes(Tok(pos + 2))))])
    /\ pos' = AfterValue
    /\ UNCHANGED <<elements, pc>>
    /\ ParseUnchanged

\* lines 204-206 and 211-213: any other identifier starts a nested parse_element call
NestedChild ==
    /\ InProps /\ IsIdentifier(Tok(pos)) /\ ~IsKeyParenString
    /\ stack' = Append(stack, EnterElement(pos).frame)
    /\ pos' = EnterElement(pos).pos
    /\ UNCHANGED <<elements, pc>>
    /\ ParseUnchanged

\* lines 209-210 and 216-217: after the nested call, a ";" is consumed
AfterChild ==
    /\ pc = "parse" /\ stack # <<>> /\ Top.at = "after_child"
    /\ pos' = IF pos < NTok /\ Tok(pos) = ";" THEN pos + 1 ELSE pos
    /\ stack' = SetTop([Top EXCEPT !.at = "props"])
    /\ UNCHANGED <<elements, pc>>
    /\ ParseUnchanged

\* lines 218-221: ";" and every other token are skipped
SkipToken ==
    /\ InProps /\ ~IsIdentifier(Tok(pos))
    /\ pos' = pos + 1
    /\ UNCHANGED <<stack, elements, pc>>
    /\ ParseUnchanged

\* lines 171, 222, 225-226: the props loop is left, pos += 1 skips the ")", and the
\* element is returned
PropsEnd ==
    /\ pc = "parse" /\ stack # <<>> /\ Top.at = "props"
    /\ ~(pos < NTok /\ Tok(pos) # ")")
    /\ ReturnTo(FrameElement(Top), pos + 1)
    /\ UNCHANGED pc
    /\ ParseUnchanged

NextParse ==
    \/ ParseTop
    \/ ParseDone
    \/ DataStep
    \/ DataEnd
    \/ PropsOpen
    \/ NoProps
    \/ PropAssign
    \/ InlineChild
    \/ NestedChild
    \/ AfterChild
    \/ SkipToken
    \/ PropsEnd

MaxTokens == 4
MaxTail == 2

SeqsUpTo(S, n) == UNION {[1..k -> S] : k \in 0..n}

\* token lists: every list of up to MaxTokens tokens, and K("v" followed by every
\* list of up to MaxTail tokens, inside the props block of an element
TokenInputs ==
    SeqsUpTo(TokenAlphabet, MaxTokens)
    \cup {<<"foo", "(", k, "(", "\"v\"">> \o tail :
            k \in IdentTokens, tail \in SeqsUpTo(TokenAlphabet, MaxTail)}

InitParse ==
    /\ plugin_registry = ParseRegistry
    /\ registrations = <<>>
    /\ tokens \in TokenInputs
    /\ pos = 0
    /\ stack = <<>>
    /\ elements = <<>>
    /\ pc = "parse"
    /\ IdleCompile

SpecParse == InitParse /\ [][NextParse]_vars

\* parse runs to completion: nothing else is scheduled
SpecParseFair == SpecParse /\ WF_vars(NextParse)

IterationOrCall ==
    ParseTop \/ DataStep \/ PropAssign \/ InlineChild \/ NestedChild \/ SkipToken

RECURSIVE Concat(_)
Concat(list) == IF list = <<>> THEN <<>> ELSE Head(list) \o Concat(Tail(list))

\* sep.join(list)
RECURSIVE Join(_, _)
Join(list, sep) ==
    IF list = <<>> THEN <<>>
    ELSE IF Len(list) = 1 THEN list[1]
    ELSE list[1] \o sep \o Join(Tail(list), sep)

IsSpace(a) == a \in {" ", "\n", "\t"}

RECURSIVE LStrip(_)
LStrip(s) == IF s # <<>> /\ IsSpace(Head(s)) THEN LStrip(Tail(s)) ELSE s

RECURSIVE RStrip(_)
RStrip(s) == IF s # <<>> /\ IsSpace(s[Len(s)]) THEN RStrip(SubSeq(s, 1, Len(s) - 1)) ELSE s

\* s.strip()
Strip(s) == RStrip(LStrip(s))

StartsAt(s, i, sub) == i + Len(sub) - 1 <= Len(s) /\ SubSeq(s, i, i + Len(sub) - 1) = sub

\* sub in s
Contains(s, sub) == \E i \in 1..(Len(s) + 1) : StartsAt(s, i, sub)

\* s.replace(old, new): the occurrences of old, left to right; the text put in is
\* not scanned again
RECURSIVE ReplaceFrom(_, _, _, _)
ReplaceFrom(s, i, old, new) ==
    IF i > Len(s) THEN <<>>
    ELSE IF StartsAt(s, i, old) THEN new \o ReplaceFrom(s, i + Len(old), old, new)
    ELSE <<s[i]>> \o ReplaceFrom(s, i + 1, old, new)

Replace(s, old, new) == ReplaceFrom(s, 1, old, new)

\* s.replace(old, new, 1)
RECURSIVE ReplaceFirstFrom(_, _, _, _)
ReplaceFirstFrom(s, i, old, new) ==
    IF i > Len(s) THEN <<>>
    ELSE IF StartsAt(s, i, old) THEN new \o SubSeq(s, i + Len(old), Len(s))
    ELSE <<s[i]>> \o ReplaceFirstFrom(s, i + 1, old, new)

ReplaceFirst(s, old, new) == ReplaceFirstFrom(s, 1, old, new)

\* s.splitlines()
RECURSIVE SplitLinesFrom(_, _, _)
SplitLinesFrom(s, i, line) ==
    IF i > Len(s) THEN (IF line = <<>> THEN <<>> ELSE <<line>>)
    ELSE IF s[i] = "\n" THEN <<line>> \o SplitLinesFrom(s, i + 1, <<>>)
    ELSE SplitLinesFrom(s, i + 1, Append(line, s[i]))

SplitLines(s) == SplitLinesFrom(s, 1, <<>>)

\* the text {{k}}
Placeholder(k) == <<"{", "{", k, "}", "}">>

\* re.sub(r"\{\{.*?\}\}", "", s): leftmost, shortest, and "." stops at a line break
RECURSIVE RemovePlaceholdersFrom(_, _)
RemovePlaceholdersFrom(s, i) ==
    IF i > Len(s) THEN <<>>
    ELSE LET closes == {j \in (i + 2)..Len(s) : StartsAt(s, j, <<"}", "}">>)}
             j0 == CHOOSE j \in closes : \A x \in closes : j <= x
         IN IF /\ StartsAt(s, i, <<"{", "{">>)
               /\ closes # {}
               /\ \A x \in (i + 2)..(j0 - 1) : s[x] # "\n"
            THEN RemovePlaceholdersFrom(s, j0 + 2)
            ELSE <<s[i]>> \o RemovePlaceholdersFrom(s, i + 1)

RemovePlaceholders(s) == RemovePlaceholdersFrom(s, 1)

\* json.dumps of one string: quotes, with the escapes of the characters of the model
JsonEscapeAtom(a) ==
    CASE a = "\"" -> <<"\\", "\"">>
      [] a = "\\" -> <<"\\", "\\">>
      [] a = "\n" -> <<"\\", "n">>
      [] OTHER    -> <<a>>

JsonQuote(s) == <<"\"">> \o Concat([i \in DOMAIN s |-> JsonEscapeAtom(s[i])]) \o <<"\"">>

\* json.dumps of a list of strings
JsonArray(list) ==
    <<"[">> \o Join([i \in DOMAIN list |-> JsonQuote(list[i])], <<",", " ">>) \o <<"]">>

MaxIndex == 2

\* the words data_json[i] and data[i] inside {{ }}
JsonIndexAtom(i) == "data_json[" \o ToString(i) \o "]"
RawIndexAtom(i) == "data[" \o ToString(i) \o "]"

\* an index read as counting from 1
JsonIndexValueFromOne(data, idx) ==
    IF 1 <= idx /\ idx <= Len(data) THEN JsonQuote(data[idx]) ELSE <<>>

\* lines 320-324 and 329-333: the replacement for index idx
JsonIndexValue(data, idx) == IF 0 <= idx /\ idx < Len(data) THEN JsonQuote(data[idx + 1]) ELSE <<>>
RawIndexValue(data, idx) == IF 0 <= idx /\ idx < Len(data) THEN data[idx + 1] ELSE <<>>

\* re.sub(r"\{\{data_json\[(\d+)\]\}\}", ..., s): one pass, left to right
RECURSIVE SubJsonIndexFrom(_, _, _)
SubJsonIndexFrom(s, i, data) ==
    IF i > Len(s) THEN <<>>
    ELSE IF \E idx \in 0..MaxIndex : StartsAt(s, i, Placeholder(JsonIndexAtom(idx)))
    THEN LET idx == CHOOSE x \in 0..MaxIndex : StartsAt(s, i, Placeholder(JsonIndexAtom(x)))
         IN JsonIndexValue(data, idx) \o SubJsonIndexFrom(s, i + 5, data)
    ELSE <<s[i]>> \o SubJsonIndexFrom(s, i + 1, data)

SubJsonIndex(s, data) == SubJsonIndexFrom(s, 1, data)

\* re.sub(r"\{\{data\[(\d+)\]\}\}", ..., s): one pass, left to right
RECURSIVE SubRawIndexFrom(_, _, _)
SubRawIndexFrom(s, i, data) ==
    IF i > Len(s) THEN <<>>
    ELSE IF \E idx \in 0..MaxIndex : StartsAt(s, i, Placeholder(RawIndexAtom(idx)))
    THEN LET idx == CHOOSE x \in 0..MaxIndex : StartsAt(s, i, Placeholder(RawIndexAtom(x)))
         IN RawIndexValue(data, idx) \o SubRawIndexFrom(s, i + 5, data)
    ELSE <<s[i]>> \o SubRawIndexFrom(s, i + 1, data)

SubRawIndex(s, data) == SubRawIndexFrom(s, 1, data)

(***************************************************************************)
(* Python dicts with their insertion order: a sequence of <<key, value>>   *)
(* with distinct keys.                                                     *)
(***************************************************************************)
DictKeys(d) == {d[i][1] : i \in DOMAIN d}

DictHas(d, k) == k \in DictKeys(d)

DictGet(d, k, default) ==
    IF DictHas(d, k) THEN d[CHOOSE i \in DOMAIN d : d[i][1] = k][2] ELSE default

\* d[k] = v
DictSet(d, k, v) ==
    IF DictHas(d, k)
    THEN [i \in DOMAIN d |-> IF d[i][1] = k THEN <<k, v>> ELSE d[i]]
    ELSE Append(d, <<k, v>>)

\* dict(pairs): a later pair replaces the value of an earlier one
RECURSIVE DictFromPairs(_)
DictFromPairs(pairs) ==
    IF pairs = <<>> THEN <<>>
    ELSE LET last == pairs[Len(pairs)]
         IN DictSet(DictFromPairs(SubSeq(pairs, 1, Len(pairs) - 1)), last[1], last[2])

(***************************************************************************)
(* compile_element.                                                        *)
(***************************************************************************)
\* element.get("data", []) or []
ElementData(element) == IF "data" \in DOMAIN element THEN element.data ELSE <<>>

\* the name taken as written
ElementNameAsWritten(element) == element.name

\* line 242: name = element["name"].lower()
ElementName(element) == Lower(element.name)

\* line 241: pad = "  " * indent
RECURSIVE Pad(_)
Pad(indent) == IF indent = 0 THEN <<>> ELSE <<" ", " ">> \o Pad(indent - 1)

\* lines 255-263: the props dict, with the default class of a styled plugin
EffectiveProps(element, info) ==
    LET props_dict == DictFromPairs(element.props) IN
    IF info.default_css # <<>> /\ "class" \in Range(info.attrs)
    THEN IF ~DictHas(props_dict, "class") \/ DictGet(props_dict, "class", <<>>) = <<>>
         THEN DictSet(props_dict, "class", <<ElementName(element)>>)
         ELSE props_dict
    ELSE props_dict

\* line 279: an explicit allow list without the wildcard
ExplicitAllow(allow) == allow # <<>> /\ "*" \notin Range(allow)

\* line 275
AttrDenied(info, k) == k \in Range(info.deny_attrs)

\* lines 279-280
AttrNotAllowed(info, k) ==
    ExplicitAllow(info.allow_attrs) /\ k \notin Range(LowerAll(info.allow_attrs))

\* lines 272-284: the props that survive the attribute rules, and the warnings
RECURSIVE FilterAttrs(_, _, _)
FilterAttrs(props_dict, info, name) ==
    IF props_dict = <<>> THEN [props |-> <<>>, warnings |-> <<>>]
    ELSE LET k == Head(props_dict)[1]
             rest == FilterAttrs(Tail(props_dict), info, name)
         IN IF AttrDenied(info, k)
            THEN [props |-> rest.props,
                  warnings |-> <<[kind |-> "attr_denied", what |-> k, on |-> name]>>
                               \o rest.warnings]
            ELSE IF AttrNotAllowed(info, k)
            THEN [props |-> rest.props,
                  warnings |-> <<[kind |-> "attr_not_allowed", what |-> k, on |-> name]>>
                               \o rest.warnings]
            ELSE [props |-> <<Head(props_dict)>> \o rest.props, warnings |-> rest.warnings]

\* line 292: the key data-<idx>
DataKey(idx) == "data-" \o ToString(idx)

RECURSIVE AddDataItems(_, _, _)
AddDataItems(final_props, data_list, idx) ==
    IF idx > Len(data_list) THEN final_props
    ELSE AddDataItems(DictSet(final_props, DataKey(idx), data_list[idx]), data_list, idx + 1)

\* lines 287-292: data and data-1..data-N are put into final_props
AddDataProps(final_props, data_list) ==
    IF data_list # <<>>
    THEN AddDataItems(DictSet(final_props, "data", Join(data_list, <<",">>)), data_list, 1)
    ELSE final_props

\* lines 295-298
AttrAllowedSet(info) ==
    IF ExplicitAllow(info.allow_attrs)
    THEN Range(LowerAll(info.allow_attrs))
    ELSE Range(LowerAll(info.attrs))

\* k="v"
AttrText(k, v) == <<k, "=", "\"">> \o v \o <<"\"">>

RECURSIVE SerializedAttrs(_, _)
SerializedAttrs(final_props, allowed) ==
    IF final_props = <<>> THEN <<>>
    ELSE LET k == Head(final_props)[1]
             keep == /\ Lower(k) # "text"
                     /\ (allowed # {} => Lower(k) \in allowed)
         IN (IF keep THEN <<AttrText(k, Head(final_props)[2])>> ELSE <<>>)
            \o SerializedAttrs(Tail(final_props), allowed)

\* lines 302-305
AttrStr(final_props, info) ==
    Strip(Join(SerializedAttrs(final_props, AttrAllowedSet(info)), <<" ">>))

\* line 314: the <ul> of the data list
DataListHtml(data) ==
    <<"<", "ul", ">", "\n">>
    \o Join([i \in DOMAIN data |-> <<"<", "li", ">">> \o data[i] \o <<"<", "/", "li", ">">>],
            <<"\n">>)
    \o <<"\n", "<", "/", "ul", ">">>

\* lines 313-317
SubDataHelpers(content, data) ==
    IF data # <<>>
    THEN Replace(Replace(content, Placeholder("data_list"), DataListHtml(data)),
                 Placeholder("data_json"), JsonArray(data))
    ELSE content

\* lines 337-338: one replace per entry of final_props, in dict order
RECURSIVE SubProps(_, _)
SubProps(content, final_props) ==
    IF final_props = <<>> THEN content
    ELSE SubProps(Replace(content, Placeholder(Head(final_props)[1]), Head(final_props)[2]),
                  Tail(final_props))

\* line 346
ChildAllowed(info, child) == ElementName(child) \in Range(LowerAll(info.allow_children))

\* lines 341-351
FilteredChildren(info, raw_children) ==
    IF ExplicitAllow(info.allow_children)
    THEN SelectSeq(raw_children, LAMBDA c : ChildAllowed(info, c))
    ELSE raw_children

RECURSIVE ChildWarnings(_, _, _)
ChildWarnings(info, raw_children, name) ==
    IF raw_children = <<>> \/ ~ExplicitAllow(info.allow_children) THEN <<>>
    ELSE (IF ChildAllowed(info, Head(raw_children)) THEN <<>>
          ELSE <<[kind |-> "child_not_allowed", what |-> Head(raw_children).name, on |-> name]>>)
         \o ChildWarnings(info, Tail(raw_children), name)

\* lines 362-379: {{*}} or else {{children}} is filled in
SubChildren(content, content_template, final_props, children_html_inner) ==
    IF Contains(content_template, Placeholder("*"))
    THEN LET text_prop == Strip(DictGet(final_props, "text", <<>>))
             combined == IF text_prop # <<>> /\ children_html_inner # <<>>
                         THEN text_prop \o <<"\n">> \o children_html_inner
                         ELSE text_prop \o children_html_inner
         IN Replace(content, Placeholder("*"), combined)
    ELSE IF Contains(content_template, Placeholder("children"))
    THEN Replace(content, Placeholder("children"), children_html_inner)
    ELSE content

OpenTag(pad, tag, attr_str) ==
    pad \o <<"<">> \o tag \o (IF attr_str # <<>> THEN <<" ">> \o attr_str ELSE <<>>) \o <<">">>

CloseTag(tag) == <<"<", "/">> \o tag \o <<">">>

\* line 387
VoidTag(pad, tag, attr_str) ==
    pad \o <<"<">> \o tag \o (IF attr_str # <<>> THEN <<" ">> \o attr_str ELSE <<>>)
    \o <<" ", "/", ">">>

\* lines 388-404 and 410-423: the block of a tag with its content lines and children
\* (separate is: the children are appended as a block of their own)
TagBlock(pad, tag, attr_str, content, child_lines, separate) ==
    IF content # <<>> \/ child_lines # <<>>
    THEN IF content # <<>> /\ child_lines = <<>> /\ ~Contains(content, <<"\n">>)
         THEN OpenTag(pad, tag, attr_str) \o content \o CloseTag(tag)
         ELSE Join(<<OpenTag(pad, tag, attr_str)>>
                   \o [i \in DOMAIN SplitLines(content) |->
                         pad \o <<" ", " ">> \o SplitLines(content)[i]]
                   \o (IF child_lines # <<>> /\ separate
                       THEN <<Join(child_lines, <<"\n">>)>> ELSE <<>>)
                   \o <<pad \o CloseTag(tag)>>,
                   <<"\n">>)
    ELSE OpenTag(pad, tag, attr_str) \o CloseTag(tag)

\* a renderer that emits the void tag only when there is nothing to put inside
RenderTagContentFirst(info, pad, attr_str, content, child_lines, separate) ==
    IF content # <<>> \/ child_lines # <<>>
    THEN TagBlock(pad, info.tag, attr_str, content, child_lines, separate)
    ELSE IF info.selfclosing THEN VoidTag(pad, info.tag, attr_str)
    ELSE TagBlock(pad, info.tag, attr_str, content, child_lines, separate)

\* lines 385-404: build tag
RenderTag(info, pad, attr_str, content, child_lines, separate) ==
    IF info.selfclosing
    THEN VoidTag(pad, info.tag, attr_str)
    ELSE TagBlock(pad, info.tag, attr_str, content, child_lines, separate)

RECURSIVE compile_element(_, _)
compile_element(element, indent) ==
    LET pad == Pad(indent)
        name == ElementName(element)
        raw_children == element.children
    IN IF name \in DOMAIN plugin_registry
       THEN LET info == plugin_registry[name]
                content_template == info.content
                had_children_placeholder ==
                    \/ Contains(content_template, Placeholder("children"))
                    \/ Contains(content_template, Placeholder("*"))
                props_dict == EffectiveProps(element, info)
                filtered == FilterAttrs(props_dict, info, name)
                data_list == ElementData(element)
                final_props == AddDataProps(filtered.props, data_list)
                attr_str == AttrStr(final_props, info)
                content_helpers == SubDataHelpers(content_template, data_list)
                content_json == SubJsonIndex(content_helpers, data_list)
                content_index == SubRawIndex(content_json, data_list)
                content_props == SubProps(content_index, final_props)
                filtered_children == FilteredChildren(info, raw_children)
                compiled == [i \in DOMAIN filtered_children |->
                               compile_element(filtered_children[i], indent + 1)]
                child_lines == [i \in DOMAIN compiled |-> compiled[i].html]
                children_html_inner == Join(child_lines, <<"\n">>)
                content_children ==
                    SubChildren(content_props, content_template, final_props,
                                children_html_inner)
                content == Strip(RemovePlaceholders(content_children))
            IN [ registered    |-> TRUE,
                 html          |-> RenderTag(info, pad, attr_str, content, child_lines,
                                             ~had_children_placeholder),
                 warnings      |-> filtered.warnings
                                   \o ChildWarnings(info, raw_children, name)
                                   \o Concat([i \in DOMAIN compiled |-> compiled[i].warnings]),
                 props_dict    |-> props_dict,
                 final_props   |-> final_props,
                 attr_str      |-> attr_str,
                 content_json  |-> content_json,
                 content_index |-> content_index,
                 content_props |-> content_props,
                 children_html |-> children_html_inner,
                 content       |-> content ]
       ELSE LET props_dict == DictFromPairs(element.props)
                text == Strip(DictGet(props_dict, "text", <<>>))
                compiled == [i \in DOMAIN raw_children |->
                               compile_element(raw_children[i], indent + 1)]
                child_lines == [i \in DOMAIN compiled |-> compiled[i].html]
            IN [ registered    |-> FALSE,
                 html          |-> TagBlock(pad, <<name>>, <<>>, text, child_lines, TRUE),
                 warnings      |-> Concat([i \in DOMAIN compiled |-> compiled[i].warnings]),
                 children_html |-> Join(child_lines, <<"\n">>) ]

(***************************************************************************)
(* compile_to_html.                                                        *)
(***************************************************************************)
\* lines 442-472: the default script of one element, its data placeholders filled
ExpandScript(js_template, data_vals) ==
    LET data_json == JsonArray(data_vals)
        data_json_esc == Replace(data_json, <<"\"">>, <<"\\", "\"">>)
        js1 == Replace(js_template, <<"\"">> \o Placeholder("data_json") \o <<"\"">>,
                       <<"\"">> \o data_json_esc \o <<"\"">>)
        js2 == Replace(js1, <<"'">> \o Placeholder("data_json") \o <<"'">>,
                       <<"'">> \o data_json_esc \o <<"'">>)
        js3 == Replace(js2, Placeholder("data_json_esc"), data_json_esc)
        js4 == Replace(js3, Placeholder("data_json"), data_json)
    IN SubRawIndex(SubJsonIndex(js4, data_vals), data_vals)

\* list.append(x) without the membership test
AppendAlways(list, x) == Append(list, x)

\* list.append(x) unless x is already in the list
AppendNew(list, x) == IF x \in Range(list) THEN list ELSE Append(list, x)

\* lines 436-439: the stylesheet of a component joins used_css once
CollectCss(used_css, info) ==
    LET css == Strip(info.default_css)
    IN IF css # <<>> THEN AppendNew(used_css, css) ELSE used_css

\* lines 437-474
CollectScript(used_scripts, info, element) ==
    LET js_template == Strip(info.default_script)
        js == ExpandScript(js_template, ElementData(element))
    IN IF js_template # <<>> /\ js # <<>> THEN AppendNew(used_scripts, js) ELSE used_scripts

\* the children the collection would visit if it walked the filtered tree of line 354
CollectedChildrenFiltered(element) ==
    IF ElementName(element) \in DOMAIN plugin_registry
    THEN FilteredChildren(plugin_registry[ElementName(element)], element.children)
    ELSE element.children

\* line 475: the collection walks the raw children
CollectedChildren(element) == element.children

\* lines 432-476: collect_defaults(element), acc = [css, scripts]
RECURSIVE collect_defaults(_, _)
RECURSIVE CollectAll(_, _)
collect_defaults(element, acc) ==
    LET name == ElementName(element)
        own == IF name \in DOMAIN plugin_registry
               THEN [css     |-> CollectCss(acc.css, plugin_registry[name]),
                     scripts |-> CollectScript(acc.scripts, plugin_registry[name], element)]
               ELSE acc
    IN CollectAll(CollectedChildren(element), own)

\* lines 475-476 and 478-479: the elements of a list, in order
CollectAll(list, acc) ==
    IF list = <<>> THEN acc
    ELSE CollectAll(Tail(list), collect_defaults(Head(list), acc))

\* line 487
StyleBlock(used_css) ==
    <<"<", "style", ">", "\n">> \o Join(used_css, <<"\n">>)
    \o <<"\n", "<", "/", "style", ">", "\n">>

\* line 495
ScriptBlock(used_scripts) ==
    <<"<", "script", ">", "\n">> \o Join(used_scripts, <<"\n">>)
    \o <<"\n", "<", "/", "script", ">", "\n">>

HeadOpen == <<"<", "head", ">">>
BodyClose == <<"<", "/", "body", ">">>

\* lines 485-491
InsertStyles(full_html, used_css) ==
    IF used_css # <<>>
    THEN IF Contains(full_html, HeadOpen)
         THEN ReplaceFirst(full_html, HeadOpen, HeadOpen \o <<"\n">> \o StyleBlock(used_css))
         ELSE StyleBlock(used_css) \o full_html
    ELSE full_html

\* lines 494-499
InsertScripts(full_html, used_scripts) ==
    IF used_scripts # <<>>
    THEN IF Contains(full_html, BodyClose)
         THEN ReplaceFirst(full_html, BodyClose, ScriptBlock(used_scripts) \o BodyClose)
         ELSE full_html \o ScriptBlock(used_scripts)
    ELSE full_html

compile_to_html(forest) ==
    LET compiled == [i \in DOMAIN forest |-> compile_element(forest[i], 0)]
        compiled_parts == [i \in DOMAIN compiled |-> compiled[i].html]
        used == CollectAll(forest, [css |-> <<>>, scripts |-> <<>>])
        body == Join(compiled_parts, <<"\n">>) \o <<"\n">>
    IN [ html         |-> InsertScripts(InsertStyles(body, used.css), used.scripts),
         body         |-> body,
         used_css     |-> used.css,
         used_scripts |-> used.scripts,
         warnings     |-> Concat([i \in DOMAIN compiled |-> compiled[i].warnings]) ]

(***************************************************************************)
(* The compiler as a state machine: the registry and the forest are given, *)
(* and one step runs compile_element on the first root, or                 *)
(* compile_to_html on the forest.                                          *)
(***************************************************************************)
CompileUnchanged ==
    UNCHANGED <<plugin_registry, registrations, tokens, pos, stack, elements, ast>>

CompileElement ==
    /\ pc = "compile"
    /\ result' = compile_element(ast[1], 0)
    /\ pc' = "compiled"
    /\ CompileUnchanged

CompileToHtml ==
    /\ pc = "assemble"
    /\ result' = compile_to_html(ast)
    /\ pc' = "assembled"
    /\ CompileUnchanged

\* a descriptor with tag div and the given fields
Descriptor(content, selfclosing, attrs, css, script, allow_children, allow_attrs, deny_attrs) ==
    [ tag            |-> <<"div">>,
      content        |-> content,
      selfclosing    |-> selfclosing,
      attrs          |-> attrs,
      default_css    |-> css,
      default_script |-> script,
      allow_children |-> allow_children,
      allow_attrs    |-> allow_attrs,
      deny_attrs     |-> deny_attrs ]

\* an element as parse builds it
Element(name, props, children, data) ==
    [name |-> name, props |-> props, children |-> children, data |-> data]

InitCompiler(registry, forest, start) ==
    /\ plugin_registry = registry
    /\ registrations = <<>>
    /\ IdleParse
    /\ ast = forest
    /\ result = <<>>
    /\ pc = start

(***************************************************************************)
(* Attribute policy: one card element, its props and data list, under      *)
(* every combination of allow_attrs and deny_attrs below.                  *)
(***************************************************************************)
MaxProps == 2
MaxData == 1

AttrsTemplate == <<"T">> \o Placeholder("a") \o Placeholder("data") \o Placeholder("data-1")
AllowAttrLists == {<<>>, <<"*">>, <<"a">>, <<"A">>, <<"data", "a">>, <<"class", "data-1">>}
DenyAttrLists == {<<>>, <<"a">>, <<"data">>, <<"data-1", "class">>}
StyledOrNot == {<<<<>>, <<>>>>, <<<<"class">>, <<".c">>>>}
AttrPairs == {<<"a", <<"v">>>>, <<"a", <<"u">>>>, <<"A", <<"v">>>>, <<"class", <<"w">>>>,
              <<"data", <<"v">>>>}
DataValues == {<<"x">>, <<"y">>}

InitAttrs ==
    \E allow \in AllowAttrLists, deny \in DenyAttrLists, styled \in StyledOrNot,
       props \in SeqsUpTo(AttrPairs, MaxProps), data \in SeqsUpTo(DataValues, MaxData) :
        InitCompiler(
            DictPut(EmptyDict, "card",
                    Descriptor(AttrsTemplate, FALSE, styled[1], styled[2], <<>>, <<>>,
                               allow, deny)),
            <<Element("Card", props, <<>>, data)>>,
            "compile")

SpecAttrs == InitAttrs /\ [][CompileElement]_vars

\* the compiled root, its descriptor and its data list
Root == ast[1]
RootInfo == plugin_registry[ElementName(Root)]
CompiledRegistered == pc = "compiled" /\ result.registered

\* the key is dropped by the attribute rules as the claims state them: it is denied,
\* or an explicit allow list without the wildcard does not hold it
DroppedByPolicy(info, k) ==
    \/ k \in Range(info.deny_attrs)
    \/ (info.allow_attrs # <<>> /\ "*" \notin Range(info.allow_attrs)
        /\ k \notin Range(info.allow_attrs))

SyntheticKeys(data) == {"data"} \cup {DataKey(i) : i \in 1..Len(data)}

\* C7: with a non-empty data list, a synthetic key data, data-1..data-N that is in
\* deny_attrs, or that is missing from an explicit allow_attrs without the wildcard,
\* is not in final_props.
SyntheticDataFiltered ==
    (CompiledRegistered /\ ElementData(Root) # <<>>) =>
        \A k \in SyntheticKeys(ElementData(Root)) :
            DroppedByPolicy(RootInfo, k) => ~DictHas(result.final_props, k)

AttrWarnings(k) ==
    SelectSeq(result.warnings,
              LAMBDA w : w.kind \in {"attr_denied", "attr_not_allowed"} /\ w.what = k)

\* C9: a key of the effective props is in final_props exactly when it is not in
\* deny_attrs and allow_attrs is empty, holds the wildcard or holds the key; each
\* dropped key gets exactly one warning and a kept key none.
AttributePolicy ==
    CompiledRegistered =>
        \A k \in DictKeys(result.props_dict) :
            /\ DictHas(result.final_props, k) <=> ~DroppedByPolicy(RootInfo, k)
            /\ Len(AttrWarnings(k)) = IF DroppedByPolicy(RootInfo, k) THEN 1 ELSE 0

(***************************************************************************)
(* Unregistered elements: a root named Foo or foo with props and children, *)
(* beside a registered card that drops attributes.                         *)
(***************************************************************************)
MaxChildren == 1

PlainPairs == {<<"text", <<"hi">>>>, <<"text", <<"l1", "\n", "l2">>>>, <<"text", <<" ">>>>,
               <<"a", <<"v">>>>}
PlainLeaves == {Element("Foo", <<<<"text", <<"in">>>>>>, <<>>, <<>>),
                Element("Card", <<<<"a", <<"v">>>>>>, <<>>, <<>>),
                InlineChildElement("foo", <<"t">>)}
PlainRegistries ==
    {DictPut(EmptyDict, "card",
             Descriptor(DefaultContent, FALSE, <<>>, <<>>, <<>>, <<>>, allow, deny)) :
        allow \in {<<>>, <<"b">>}, deny \in {<<>>, <<"a">>}}

InitPlain ==
    \E registry \in PlainRegistries, name \in {"Foo", "foo"},
       props \in SeqsUpTo(PlainPairs, MaxProps),
       children \in SeqsUpTo(PlainLeaves, MaxChildren) :
        InitCompiler(registry, <<Element(name, props, children, <<>>)>>, "compile")

SpecPlain == InitPlain /\ [][CompileElement]_vars

StartsWith(s, prefix) == StartsAt(s, 1, prefix)
EndsWith(s, suffix) == Len(suffix) <= Len(s) /\ StartsAt(s, Len(s) - Len(suffix) + 1, suffix)

CompiledUnregistered ==
    pc = "compiled" /\ Lower(Root.name) \notin DOMAIN plugin_registry

NoAttrWarningOn(name) ==
    \A i \in DOMAIN result.warnings :
        result.warnings[i].kind \in {"attr_denied", "attr_not_allowed"}
            => result.warnings[i].on # name

\* C1 as stated: an element whose lowercased name is not a registry key is rendered
\* with opening and closing tags that carry its name as written, and no
\* attribute-policy warning is emitted for it.
UnregisteredKeepsCase ==
    CompiledUnregistered =>
        /\ StartsWith(result.html, <<"<", Root.name, ">">>)
        /\ EndsWith(result.html, <<"<", "/", Root.name, ">">>)
        /\ NoAttrWarningOn(Root.name)
        /\ NoAttrWarningOn(Lower(Root.name))

\* C1 as amended: an element whose lowercased name is not a registry key is rendered
\* with opening and closing tags that carry its lowercased name, and no
\* attribute-policy warning is emitted for it.
UnregisteredRendersLowercase ==
    CompiledUnregistered =>
        /\ StartsWith(result.html, <<"<", Lower(Root.name), ">">>)
        /\ EndsWith(result.html, <<"<", "/", Lower(Root.name), ">">>)
        /\ NoAttrWarningOn(Root.name)
        /\ NoAttrWarningOn(Lower(Root.name))

\* Foo(a("v"); text("hi")) has been rendered as <foo>hi</foo>
FooRendered ==
    /\ CompiledUnregistered
    /\ Root = Element("Foo", <<<<"a", <<"v">>>>, <<"text", <<"hi">>>>>>, <<>>, <<>>)
    /\ result.html = <<"<", "foo", ">", "hi", "<", "/", "foo", ">">>
    /\ result.warnings = <<>>

(***************************************************************************)
(* Self-closing components: a card element with props, data and children   *)
(* under descriptors that are self-closing or not.                         *)
(***************************************************************************)
VoidTemplates == {<<"T">>,
                  <<"T">> \o Placeholder("children"),
                  <<"T">> \o Placeholder("*"),
                  DefaultContent,
                  <<"T">> \o Placeholder("a") \o Placeholder("data_list")}
VoidPairs == {<<"a", <<"v">>>>, <<"text", <<"hi">>>>}
VoidLeaves == {Element("Foo", <<<<"text", <<"in">>>>>>, <<>>, <<>>),
               Element("Card", <<<<"a", <<"v">>>>>>, <<>>, <<>>)}

InitVoid ==
    \E content \in VoidTemplates, selfclosing \in BOOLEAN,
       allow_children \in {<<>>, <<"foo">>}, deny \in {<<>>, <<"a">>},
       props \in SeqsUpTo(VoidPairs, MaxProps), data \in SeqsUpTo(DataValues, MaxData),
       children \in SeqsUpTo(VoidLeaves, MaxChildren) :
        InitCompiler(
            DictPut(EmptyDict, "card",
                    Descriptor(content, selfclosing, <<>>, <<>>, <<>>, allow_children,
                               <<>>, deny)),
            <<Element("Card", props, children, data)>>,
            "compile")

SpecVoid == InitVoid /\ [][CompileElement]_vars

\* the number of places where sub occurs in s
Count(s, sub) == Cardinality({i \in 1..Len(s) : StartsAt(s, i, sub)})

\* C4: a registered element whose descriptor is self-closing is rendered as the one
\* line <tag attrs />, whatever its data, props and children: the output holds
\* neither text of the content template nor markup of a child.
SelfClosingIsVoidTag ==
    (CompiledRegistered /\ RootInfo.selfclosing) =>
        /\ result.html =
             <<"<">> \o RootInfo.tag
             \o (IF result.attr_str # <<>> THEN <<" ">> \o result.attr_str ELSE <<>>)
             \o <<" ", "/", ">">>
        /\ Count(result.html, <<"T">>) = 0
        /\ Count(result.html, <<"<">>) = 1

\* a self-closing card with a template, a text and an attribute, a data list and a
\* child has been rendered
VoidCardRendered ==
    /\ CompiledRegistered
    /\ RootInfo.selfclosing
    /\ RootInfo.content = <<"T">> \o Placeholder("children")
    /\ Root.children # <<>>
    /\ ElementData(Root) # <<>>
    /\ Root.props = <<<<"a", <<"v">>>>, <<"text", <<"hi">>>>>>
    /\ result.html = <<"<", "div", " ", "a", "=", "\"", "v", "\"", " ", "data", "=", "\"",
                       "x", "\"", " ", "data-1", "=", "\"", "x", "\"", " ", "/", ">">>

(***************************************************************************)
(* Indexed data placeholders: templates made of up to MaxSegments          *)
(* segments, each a literal or {{data_json[i]}} or {{data[i]}}, and a data *)
(* list of up to MaxIndexedData values.                                    *)
(***************************************************************************)
MaxSegments == 2
MaxIndexedData == 2

IndexSegments ==
    {[kind |-> "lit", idx |-> 0]}
    \cup [kind : {"json", "raw"}, idx : 0..MaxIndex]

SegmentText(seg) ==
    CASE seg.kind = "lit"  -> <<"T">>
      [] seg.kind = "json" -> Placeholder(JsonIndexAtom(seg.idx))
      [] seg.kind = "raw"  -> Placeholder(RawIndexAtom(seg.idx))

SegmentsText(segs) == Concat([i \in DOMAIN segs |-> SegmentText(segs[i])])

\* data values: plain ones, and one that JSON quoting has to escape
IndexDataValues == {<<"x">>, <<"a", "\\", "b">>}

InitData ==
    \E segs \in SeqsUpTo(IndexSegments, MaxSegments),
       data \in SeqsUpTo(IndexDataValues, MaxIndexedData) :
        InitCompiler(
            DictPut(EmptyDict, "card",
                    Descriptor(SegmentsText(segs), FALSE, <<>>, <<>>, <<>>, <<>>, <<>>, <<>>)),
            <<Element("Card", <<>>, <<>>, data)>>,
            "compile")

SpecData == InitData /\ [][CompileElement]_vars

\* what the claim says a segment of the template resolves to
ResolvedSegment(seg, d) ==
    CASE seg.kind = "lit"  -> <<"T">>
      [] seg.kind = "json" -> IF seg.idx >= Len(d) THEN <<>>
                              ELSE <<"\"">> \o Replace(d[seg.idx + 1], <<"\\">>, <<"\\", "\\">>)
                                   \o <<"\"">>
      [] seg.kind = "raw"  -> IF seg.idx >= Len(d) THEN <<>> ELSE d[seg.idx + 1]

\* C6: in the content template of a registered element with data list d, every
\* {{data_json[i]}} and {{data[i]}} with i >= len(d) resolves to the empty string,
\* and for i < len(d) {{data_json[i]}} resolves to the JSON-quoted d[i] and
\* {{data[i]}} to the raw d[i].
IndexedDataResolves ==
    CompiledRegistered =>
        \A segs \in SeqsUpTo(IndexSegments, MaxSegments) :
            RootInfo.content = SegmentsText(segs) =>
                result.content_index =
                    Concat([i \in DOMAIN segs |-> ResolvedSegment(segs[i], ElementData(Root))])

\* {{data_json[0]}}{{data[1]}} has been resolved against a data list of one value
\* that needs escaping
IndexedDataResolved ==
    /\ CompiledRegistered
    /\ RootInfo.content = Placeholder(JsonIndexAtom(0)) \o Placeholder(RawIndexAtom(1))
    /\ ElementData(Root) = <<<<"a", "\\", "b">>>>
    /\ result.content_index = <<"\"", "a", "\\", "\\", "b", "\"">>

(***************************************************************************)
(* Placeholders in property values: templates made of up to MaxSegments    *)
(* segments, each a literal, {{a}}, {{children}} or {{*}}, and props whose *)
(* values may hold placeholder text themselves.                            *)
(***************************************************************************)
PropSegmentTexts ==
    {<<"T">>, Placeholder("a"), Placeholder("children"), Placeholder("*")}
PropTemplates ==
    {Concat(segs) : segs \in SeqsUpTo(PropSegmentTexts, MaxSegments)}
PropPairs == {<<"a", <<"v">>>>, <<"a", Placeholder("b")>>, <<"a", Placeholder("x")>>,
              <<"a", Placeholder("children")>>, <<"b", <<"w">>>>, <<"text", <<"t">>>>}
PropLeaves == {Element("Foo", <<<<"text", <<"in">>>>>>, <<>>, <<>>)}

InitProps ==
    \E content \in PropTemplates, props \in SeqsUpTo(PropPairs, MaxProps),
       children \in SeqsUpTo(PropLeaves, MaxChildren) :
        InitCompiler(
            DictPut(EmptyDict, "card",
                    Descriptor(content, FALSE, <<>>, <<>>, <<>>, <<>>, <<>>, <<>>)),
            <<Element("Card", props, children, <<>>)>>,
            "compile")

SpecProps == InitProps /\ [][CompileElement]_vars

\* C3: when the value of a surviving property holds placeholder text and the
\* template holds the placeholder of that property, the value appears verbatim in
\* the rendered content: it is neither expanded by a later substitution nor
\* deleted by the final cleanup.
SubstitutedTextIsVerbatim ==
    CompiledRegistered =>
        \A i \in DOMAIN result.final_props :
            LET k == result.final_props[i][1]
                v == result.final_props[i][2]
            IN (Contains(v, <<"{", "{">>) /\ Contains(RootInfo.content, Placeholder(k)))
                   => Contains(result.content, v)

(***************************************************************************)
(* Documents: forests of up to MaxRoots roots over the components card,    *)
(* box and wrap (wrap allows only foo children), with the default          *)
(* stylesheets and scripts below.                                          *)
(***************************************************************************)
MaxRoots == 2

\* <div class="card">{{children}}</div>
CardTemplate ==
    <<"<", "div", " ", "class", "=", "\"", "card", "\"", ">">> \o Placeholder("children")
    \o <<"<", "/", "div", ">">>

CardStylesheets == {<<>>, <<" ">>, <<".c">>, <<".c", " ">>}
BoxStylesheets == {<<".c">>, <<".b">>}
CardScripts == {<<>>, <<"alert", "(">> \o Placeholder(JsonIndexAtom(0)) \o <<")">>}

DocRegistry(card_css, box_css, card_script) ==
    DictPut(DictPut(DictPut(EmptyDict,
        "card", Descriptor(CardTemplate, FALSE, <<>>, card_css, card_script, <<>>, <<>>, <<>>)),
        "box", Descriptor(DefaultContent, FALSE, <<>>, box_css, <<>>, <<>>, <<>>, <<>>)),
        "wrap", Descriptor(Placeholder("children"), FALSE, <<>>, <<>>, <<>>, <<"foo">>, <<>>, <<>>))

TextChild(t) == Element("Foo", <<<<"text", <<t>>>>>>, <<>>, <<>>)

DocRoots ==
    { Element("Card", <<>>, <<TextChild("one")>>, <<<<"x">>>>),
      Element("Card", <<>>, <<TextChild("two")>>, <<>>),
      Element("box", <<>>, <<>>, <<>>),
      Element("wrap", <<>>, <<Element("Card", <<>>, <<>>, <<>>), Element("box", <<>>, <<>>, <<>>)>>,
              <<>>),
      Element("wrap", <<>>,
              <<TextChild("in"),
                Element("box", <<>>, <<Element("Card", <<>>, <<>>, <<<<"y">>>>)>>, <<>>)>>,
              <<>>),
      Element("head", <<>>, <<>>, <<>>),
      Element("style", <<<<"text", <<"s">>>>>>, <<>>, <<>>) }

InitDoc ==
    \E card_css \in CardStylesheets, box_css \in BoxStylesheets, card_script \in CardScripts,
       forest \in SeqsUpTo(DocRoots, MaxRoots) :
        InitCompiler(DocRegistry(card_css, box_css, card_script), forest, "assemble")

SpecDoc == InitDoc /\ [][CompileToHtml]_vars

\* the elements of a forest in pre-order
RECURSIVE PreOrder(_)
PreOrder(forest) ==
    IF forest = <<>> THEN <<>>
    ELSE <<Head(forest)>> \o PreOrder(Head(forest).children) \o PreOrder(Tail(forest))

FirstIndex(seq, x) == CHOOSE i \in DOMAIN seq : seq[i] = x /\ \A j \in 1..(i - 1) : seq[j] # x

StyleOpen == <<"<", "style", ">">>

\* used_css holds each non-empty text of sheets once, in the order of first occurrence,
\* and the document gains the one <style> block made of it
StyleBlockHolds(sheets) ==
    /\ Range(result.used_css) = {c \in Range(sheets) : c # <<>>}
    /\ \A i, j \in DOMAIN result.used_css :
         i < j => /\ result.used_css[i] # result.used_css[j]
                  /\ FirstIndex(sheets, result.used_css[i]) < FirstIndex(sheets, result.used_css[j])
    /\ Count(result.html, StyleOpen) =
         Count(result.body, StyleOpen) + (IF result.used_css # <<>> THEN 1 ELSE 0)
    /\ result.used_css # <<>> =>
         Contains(result.html,
                  <<"<", "style", ">", "\n">> \o Join(result.used_css, <<"\n">>)
                  \o <<"\n", "<", "/", "style", ">", "\n">>)

\* the default stylesheet of each element of the forest, in pre-order (empty for an
\* unregistered element)
PresentStylesheets ==
    LET nodes == PreOrder(ast)
    IN [i \in DOMAIN nodes |->
          IF ElementName(nodes[i]) \in DOMAIN plugin_registry
          THEN plugin_registry[ElementName(nodes[i])].default_css
          ELSE <<>>]

\* C5 as stated: compile_to_html adds at most one <style> block, and it holds each
\* distinct non-empty default stylesheet of the components present in the forest
\* exactly once, in pre-order of first encounter.
StylesheetsOnceInOrder ==
    pc = "assembled" => StyleBlockHolds(PresentStylesheets)

\* C5 as amended: the same of the default stylesheets with their surrounding
\* whitespace trimmed (a stylesheet of whitespace alone counts as empty).
TrimmedStylesheetsOnceInOrder ==
    pc = "assembled" =>
        StyleBlockHolds([i \in DOMAIN PresentStylesheets |-> Strip(PresentStylesheets[i])])

\* two card elements, each with one text child, under the stylesheet .c: one <style>
\* block with the stylesheet once, and two card blocks each around its own child
TwoCardsOneStyle ==
    /\ pc = "assembled"
    /\ ast = <<Element("Card", <<>>, <<TextChild("one")>>, <<<<"x">>>>),
               Element("Card", <<>>, <<TextChild("two")>>, <<>>)>>
    /\ plugin_registry["card"].default_css = <<".c">>
    /\ result.used_css = <<<<".c">>>>
    /\ Count(result.html, <<".c">>) = 1
    /\ Count(result.html, StyleOpen) = 1
    /\ Count(result.html, <<"<", "div", " ", "class", "=", "\"", "card", "\"", ">">>) = 2
    /\ Count(result.html, <<"<", "foo", ">", "one", "<", "/", "foo", ">">>) = 1
    /\ Count(result.html, <<"<", "foo", ">", "two", "<", "/", "foo", ">">>) = 1

(***************************************************************************)
(* Dropped children: rendering walks the filtered tree, the collection of  *)
(* stylesheets and scripts the raw one.                                    *)
(***************************************************************************)
IsRegistered(element) == ElementName(element) \in DOMAIN plugin_registry

InfoOf(element) == plugin_registry[ElementName(element)]

\* the children of a registered parent that its explicit allow_children drops
IsDroppedChild(parent, child) ==
    /\ IsRegistered(parent)
    /\ ExplicitAllow(InfoOf(parent).allow_children)
    /\ ~ChildAllowed(InfoOf(parent), child)

\* the stylesheet and the expanded script of a registered element are in the document
DefaultsInDocument(element) ==
    LET css == Strip(InfoOf(element).default_css)
        js_template == Strip(InfoOf(element).default_script)
        js == ExpandScript(js_template, ElementData(element))
    IN /\ css # <<>> => css \in Range(result.used_css) /\ Contains(result.html, css)
       /\ (js_template # <<>> /\ js # <<>>) =>
            js \in Range(result.used_scripts) /\ Contains(result.html, js)

\* C11: when a registered parent's explicit allow_children drops a child, the
\* parent's markup is the markup it has without that child and does not hold the
\* child's markup, a warning names the child, and the default stylesheet and the
\* expanded default script of every registered element of the dropped subtree are
\* in the final document.
DroppedSubtreeStillContributes ==
    pc = "assembled" =>
        \A i \in DOMAIN PreOrder(ast) :
            LET parent == PreOrder(ast)[i]
            IN \A j \in DOMAIN parent.children :
                 LET child == parent.children[j]
                 IN IsDroppedChild(parent, child) =>
                      /\ compile_element(parent, 0).html =
                           compile_element(
                               [parent EXCEPT !.children =
                                   SelectSeq(parent.children,
                                             LAMBDA c : ~IsDroppedChild(parent, c))], 0).html
                      /\ ~Contains(compile_element(parent, 0).html,
                                   compile_element(child, 1).html)
                      /\ \A k \in DOMAIN PreOrder(<<child>>) :
                           IsRegistered(PreOrder(<<child>>)[k]) =>
                               DefaultsInDocument(PreOrder(<<child>>)[k])

\* wrap[Foo, box[Card{"y"}]]: the box is dropped with a warning and only the Foo is
\* rendered, yet the stylesheets of box and card and the script of the card are there
DroppedBoxContributes ==
    /\ pc = "assembled"
    /\ ast = <<Element("wrap", <<>>,
                 <<TextChild("in"),
                   Element("box", <<>>, <<Element("Card", <<>>, <<>>, <<<<"y">>>>)>>, <<>>)>>,
                 <<>>)>>
    /\ plugin_registry["card"].default_css = <<".c">>
    /\ plugin_registry["box"].default_css = <<".b">>
    /\ plugin_registry["card"].default_script # <<>>
    /\ result.warnings = <<[kind |-> "child_not_allowed", what |-> "box", on |-> "wrap"]>>
    /\ result.used_css = <<<<".b">>, <<".c">>>>
    /\ result.used_scripts = <<<<"alert", "(", "\"", "y", "\"", ")">>>>
    /\ Contains(result.body, <<"<", "foo", ">", "in", "<", "/", "foo", ">">>)
    /\ Count(result.body, <<"card">>) = 0
    /\ Contains(result.html, <<".c">>)
    /\ Contains(result.html, <<"alert", "(", "\"", "y", "\"", ")">>)

(***************************************************************************)
(* Children placeholders: templates made of up to MaxSlots slots, each the *)
(* literal T, {{children}} or {{*}}, on a card with or without a text and  *)
(* with children that its allow_children keeps or drops.                   *)
(***************************************************************************)
MaxSlots == 2

Slots == {"lit", "children", "star"}

SlotText(slot) ==
    CASE slot = "lit"      -> <<"T">>
      [] slot = "children" -> Placeholder("children")
      [] slot = "star"     -> Placeholder("*")

SlotsText(slots) == Concat([i \in DOMAIN slots |-> SlotText(slots[i])])

SlotChildren ==
    { <<>>,
      <<TextChild("in")>>,
      <<TextChild("in"), Element("bar", <<>>, <<>>, <<>>)>> }

InitSlots ==
    \E slots \in SeqsUpTo(Slots, MaxSlots), allow_children \in {<<>>, <<"foo">>},
       props \in {<<>>, <<<<"text", <<"hi">>>>>>}, children \in SlotChildren :
        InitCompiler(
            DictPut(EmptyDict, "card",
                    Descriptor(SlotsText(slots), FALSE, <<>>, <<>>, <<>>, allow_children,
                               <<>>, <<>>)),
            <<Element("Card", props, children, <<>>)>>,
            "compile")

SpecSlots == InitSlots /\ [][CompileElement]_vars

FooOpen == <<"<", "foo", ">">>

\* the trimmed text of the element followed by the children markup
TextAndChildren ==
    LET text == Strip(DictGet(result.final_props, "text", <<>>))
    IN IF text # <<>> /\ result.children_html # <<>>
       THEN text \o <<"\n">> \o result.children_html
       ELSE text \o result.children_html

\* C12: in the content of a registered element that is not self-closing, every
\* {{children}} of the template stands for the compiled filtered children alone and
\* every {{*}} for the trimmed text joined with them, also when the template holds
\* both; the surviving children form a block of their own exactly when the template
\* holds neither.
ChildrenSlotsFilled ==
    (CompiledRegistered /\ ~RootInfo.selfclosing) =>
        /\ result.content =
             Strip(Replace(Replace(RootInfo.content, Placeholder("*"), TextAndChildren),
                           Placeholder("children"), result.children_html))
        /\ result.children_html # <<>> =>
             Count(result.html, FooOpen) =
                 Count(result.content, FooOpen)
                 + (IF \/ Contains(RootInfo.content, Placeholder("children"))
                       \/ Contains(RootInfo.content, Placeholder("*"))
                    THEN 0 ELSE 1)

(***************************************************************************)
(* Warnings of a self-closing element.                                     *)
(***************************************************************************)
\* C13: while a registered element whose descriptor is self-closing is rendered, its
\* children are neither filtered nor compiled: the warnings emitted are the
\* attribute warnings of the element itself, with no child-not-allowed warning and
\* no warning out of a descendant.
SelfClosingSkipsChildren ==
    (CompiledRegistered /\ RootInfo.selfclosing) =>
        /\ \A i \in DOMAIN result.warnings : result.warnings[i].kind # "child_not_allowed"
        /\ result.warnings =
             FilterAttrs(result.props_dict, RootInfo, ElementName(Root)).warnings

(***************************************************************************)
(* Names of the parsed elements.                                           *)
(***************************************************************************)
\* C14: every element of the forest that parse returns, at any depth, is named by an
\* identifier token, never by a punctuation token or a string literal.
ElementNamesAreIdentifiers ==
    pc = "parsed" =>
        \A i \in DOMAIN PreOrder(elements) : IsIdentifier(PreOrder(elements)[i].name)

\* the descriptor of the latest registration whose name lowercases to key
RECURSIVE LatestFor(_, _)
LatestFor(log, key) ==
    IF log = <<>> THEN <<>>
    ELSE IF Lower(log[Len(log)].name) = key
         THEN log[Len(log)].desc
         ELSE LatestFor(SubSeq(log, 1, Len(log) - 1), key)

RegisteredKeys == {Lower(registrations[i].name) : i \in DOMAIN registrations}

\* C2: after any sequence of registrations, a lookup by lowercase name returns
\* the descriptor of the latest registration whose name lowercases to that key.
LatestRegistrationWins ==
    \A key \in RegisteredKeys :
        /\ key \in DOMAIN plugin_registry
        /\ plugin_registry[key] = LatestFor(registrations, key)

====
